---- MODULE Spec2Model ----
(***************************************************************************)
(* Webpage classifier: the classification pipeline of classifier.py.       *)
(*                                                                         *)
(* A request runs gpt_classification(url): load_and_screenshot renders the *)
(* page in a headless browser (bounded retries), the screenshot is read    *)
(* back from /tmp and base64-encoded, and the model is asked in visual     *)
(* mode; when every render attempt failed the model is asked in text-only  *)
(* mode (gpt_classification_without_image).                                *)
(*                                                                         *)
(* Python strings are TLA+ strings; Python values that may be None are     *)
(* records tagged with a "kind" field.  The browser, the file system and   *)
(* the inference endpoint are the environment: each call on them either    *)
(* succeeds or raises, chosen nondeterministically.                        *)
(***************************************************************************)
EXTENDS Integers, Sequences, FiniteSets, TLC

VARIABLES
    pc,          \* pc[r]: position of request r in gpt_classification
    url,         \* url[r]: the url argument of gpt_classification
    attempt,     \* attempt[r]: loop variable of load_and_screenshot
    img_base64,  \* img_base64[r]: local img_base64 of load_and_screenshot
    returned,    \* returned[r]: value load_and_screenshot returned (img_base64 of gpt_classification)
    browser,     \* browser[r]: number of live browser sessions held by r
    files,       \* the files under /tmp: path -> content
    raw,         \* raw[r]: what the inference endpoint answered to r
    result,      \* result[r]: value gpt_classification returned
    renders,     \* history: renders[r] = render attempts started by r
    fails,       \* history: fails[r] = render attempts of r that raised
    calls,       \* history: calls[r] = the model invocations of r, in order
    navigated,   \* history: navigated[r] = the urls r passed to page.goto, in order
    api_keys,    \* the api_keys collection: documents in insertion order
    classified,  \* the classified_urls collection: documents in insertion order
    api_key,     \* api_key[r]: the api_key argument of classify_url
    response,    \* response[r]: the HTTP response of classify_url: its status
                 \* and, of the body, classification and source (the body
                 \* also echoes the url argument)
    served,      \* history: served[k] = requests of key k answered with a
                 \* classification since its creation or last refresh
    invoked,     \* history: invoked[u] = calls of gpt_classification(u)
    started      \* history: number of classify-url requests received

\* the state of the classification pipeline (classifier.py)
coreVars == <<pc, url, attempt, img_base64, returned, browser, files, raw,
              result, renders, fails, calls, navigated>>

\* the state of the HTTP service (main.py)
httpVars == <<api_keys, classified, api_key, response, served, invoked,
              started>>

vars == <<pc, url, attempt, img_base64, returned, browser, files, raw,
          result, renders, fails, calls, navigated, api_keys, classified,
          api_key, response, served, invoked, started>>

---------------------------------------------------------------------------
(* Program constants *)

MAX_RETRIES == 2

CLASSIFICATION_FAILURE == "classification failure"

CanonicalLabels == {"generic parked landing page", "live website", "nonactive domain"}

DefaultLabel == "nonactive domain"

---------------------------------------------------------------------------
(* Inputs *)

\* The requests of the single-invocation specification.
SingleRequest == {1}

\* Two invocations of gpt_classification running on the same event loop.
ConcRequests == {1, 2}

\* At most MaxKeys api keys are generated.
MaxKeys == 2

\* At most MaxRequests classify-url requests are received.
MaxRequests == 2

\* generate_api_key is called with rate_limit None or 0..MaxRateLimit.
MaxRateLimit == 1

\* uuid.uuid4() of generate_api_key: the n-th key issued is KeyNames[n].
KeyNames == <<"key-1", "key-2", "key-3", "key-4">>

\* The api_key values a caller may pass: the keys that are or will be issued.
KeyPool == {KeyNames[n] : n \in 1..MaxKeys}

\* The request handlers of classify_url that may be running at a time.
HttpSlots == {1, 2}

\* URLs passed to classify-url and poll-classification.
HttpUrls == {"a.co", "https://b.co"}

\* URLs a caller may pass: bare domain, http, https, upper-case scheme.
Urls == {"a.co", "http://a.co", "https://b.co", "HTTP://a.co"}

\* Texts the model may answer with.
ModelTexts == {"live website", "Live Website", " nonactive domain\n",
               "generic parked landing page", "I don't know", "",
               "Live Website", "LIVE WEBSITÉ"}

\* Outcomes of one call of openai.ChatCompletion.create and of reading
\* response['choices'][0]['message']['content']: a text, an exception raised
\* by the call, or a response without a text content.
ModelResponses ==
    [kind : {"text"}, content : ModelTexts]
        \cup {[kind |-> "error"], [kind |-> "malformed"]}

---------------------------------------------------------------------------
(* Python values *)

None == [kind |-> "None"]

Pending == [kind |-> "pending"]

Str(s) == [kind |-> "str", value |-> s]

IntVal(n) == [kind |-> "int", value |-> n]

\* The values of the rate_limit parameter of generate_api_key.
RateLimits == {None} \cup {IntVal(n) : n \in 0..MaxRateLimit}

---------------------------------------------------------------------------
(* Pure functions of classifier.py *)

StartsWith(s, prefix) ==
    /\ Len(s) >= Len(prefix)
    /\ SubSeq(s, 1, Len(prefix)) = prefix

\* Variant of format_url: the scheme is prepended without looking at the url.
format_url_AlwaysPrepends(u) == "http://" \o u

\* format_url: prepend http:// unless the url starts with http:// or https://
format_url(u) ==
    IF ~(StartsWith(u, "http://") \/ StartsWith(u, "https://"))
    THEN "http://" \o u
    ELSE u

\* hashlib.md5(url.encode()).hexdigest(), tabulated for the urls of the model
Md5Hex(u) ==
    CASE u = "http://a.co"         -> "b1a36ca5e89be189f98b9cfe5f98bf74"
      [] u = "https://b.co"        -> "ca1bd53323f72b388b9ac7d9dd3cba61"
      [] u = "http://HTTP://a.co"  -> "e72b86382580c3ca49e5b5f51cac4ab2"
      [] u = "http://b.co"         -> "625e0a3c639ce19e276ae4475167ab62"
      [] u = "https://a.co"        -> "4423138d5149a02ae8732be49d7625dd"
      [] u = "http://"             -> "dbd7790bcd23fde7607101ef6a633779"
      [] u = "http://http://a.co"  -> "d3dfb8bab2a88e13598d56d6fca6cfd1"
      [] u = "http://https://b.co" -> "07e20d0fc5d10d10942418beaf065711"

\* image_path of load_and_screenshot for the url passed by the caller
ImagePath(u) == "/tmp/" \o Md5Hex(format_url(u)) \o ".png"

\* lines 80 and 121: the characters str.strip() removes, those for which
\* str.isspace() holds: space, \t, \n, \r, \f, then (written as the
\* characters themselves) U+000B, U+001C, U+001D, U+001E, U+001F, U+0085 and
\* U+00A0.  The remaining ones (U+1680, U+2000-U+200A, U+2028, U+2029,
\* U+202F, U+205F, U+3000) cannot be written in a string of a module.
Whitespace == {" ", "\t", "\n", "\r", "\f",
               "", "", "", "", "", "", " "}

RECURSIVE LStrip(_)
LStrip(s) ==
    IF Len(s) > 0 /\ Head(s) \in Whitespace THEN LStrip(Tail(s)) ELSE s

RECURSIVE RStrip(_)
RStrip(s) ==
    IF Len(s) > 0 /\ SubSeq(s, Len(s), Len(s)) \in Whitespace
    THEN RStrip(SubSeq(s, 1, Len(s) - 1))
    ELSE s

\* str.strip()
Strip(s) == RStrip(LStrip(s))

\* line 121: str.lower() on one character: A-Z and the upper-case letters
\* U+00C0-U+00DE (U+00D7, the multiplication sign, has no case).  The cased
\* characters above U+00FF cannot be written in a string of a module.
LowerChar(c) ==
    CASE c = "A" -> "a" [] c = "B" -> "b" [] c = "C" -> "c" [] c = "D" -> "d"
      [] c = "E" -> "e" [] c = "F" -> "f" [] c = "G" -> "g" [] c = "H" -> "h"
      [] c = "I" -> "i" [] c = "J" -> "j" [] c = "K" -> "k" [] c = "L" -> "l"
      [] c = "M" -> "m" [] c = "N" -> "n" [] c = "O" -> "o" [] c = "P" -> "p"
      [] c = "Q" -> "q" [] c = "R" -> "r" [] c = "S" -> "s" [] c = "T" -> "t"
      [] c = "U" -> "u" [] c = "V" -> "v" [] c = "W" -> "w" [] c = "X" -> "x"
      [] c = "Y" -> "y" [] c = "Z" -> "z"
      [] c = "À" -> "à" [] c = "Á" -> "á" [] c = "Â" -> "â" [] c = "Ã" -> "ã"
      [] c = "Ä" -> "ä" [] c = "Å" -> "å" [] c = "Æ" -> "æ" [] c = "Ç" -> "ç"
      [] c = "È" -> "è" [] c = "É" -> "é" [] c = "Ê" -> "ê" [] c = "Ë" -> "ë"
      [] c = "Ì" -> "ì" [] c = "Í" -> "í" [] c = "Î" -> "î" [] c = "Ï" -> "ï"
      [] c = "Ð" -> "ð" [] c = "Ñ" -> "ñ" [] c = "Ò" -> "ò" [] c = "Ó" -> "ó"
      [] c = "Ô" -> "ô" [] c = "Õ" -> "õ" [] c = "Ö" -> "ö" [] c = "Ø" -> "ø"
      [] c = "Ù" -> "ù" [] c = "Ú" -> "ú" [] c = "Û" -> "û" [] c = "Ü" -> "ü"
      [] c = "Ý" -> "ý" [] c = "Þ" -> "þ"
      [] OTHER -> c

RECURSIVE Lower(_)
\* str.lower()
Lower(s) ==
    IF Len(s) = 0 THEN s ELSE LowerChar(Head(s)) \o Lower(Tail(s))

\* lines 123-124: a result outside the three options becomes the default
Coerce(s) == IF s \notin CanonicalLabels THEN DefaultLabel ELSE s

---------------------------------------------------------------------------
(* Environment: file system, browser, encoder *)

Exists(fs, path) == path \in DOMAIN fs

\* Variant of WriteFile: an existing file is kept (exclusive create).
WriteFile_KeepsExisting(fs, path, content) ==
    [q \in DOMAIN fs \cup {path} |->
        IF q = path /\ path \notin DOMAIN fs THEN content ELSE fs[q]]

\* page.screenshot(path=...): creates the file or replaces its content
WriteFile(fs, path, content) ==
    [q \in DOMAIN fs \cup {path} |-> IF q = path THEN content ELSE fs[q]]

\* os.remove(path)
RemoveFile(fs, path) == [q \in DOMAIN fs \ {path} |-> fs[q]]

\* base64.b64encode(image_file.read()).decode("utf-8")
B64Encode(content) == [kind |-> "b64", image |-> content]

\* The page image the browser of request r captures in attempt a.
Image(r, a) == [req |-> r, attempt |-> a]

\* Variant of AExit: no scope around the session, nothing is released.
AExit_NoRelease(b) == b

\* Leaving "async with async_playwright() as p": the playwright driver is
\* stopped, which closes every browser it launched, on normal exit and when
\* an exception propagates out of the block.
AExit(b) == 0

---------------------------------------------------------------------------
(* Decisions of the code *)

\* line 31: "for attempt in range(1, retries + 1)" has a next value
HasNextAttempt(a, retries) == a + 1 <= retries

\* Variant of GivesUp: gives up on the first failure.
GivesUp_FirstFailure(a, retries) == a = 1

\* line 48: the except handler gives up when "attempt == retries"
GivesUp(a, retries) == a = retries

\* Variant of FallbackMode: the test on None is inverted.
FallbackMode_Inverted(ret) == IF ret # None THEN "text" ELSE "visual"

\* lines 90-91: which mode gpt_classification asks the model in
FallbackMode(ret) == IF ret = None THEN "text" ELSE "visual"

\* Variant of VisualReturn: a failed visual call falls back to text-only.
VisualReturn_FallsBackToText(resp) ==
    IF resp.kind = "text"
    THEN [pc |-> "done", result |-> Str(Coerce(Lower(Strip(resp.content))))]
    ELSE [pc |-> "text", result |-> Pending]

\* lines 106-128: the try/except around the visual model call
VisualReturn(resp) ==
    IF resp.kind = "text"
    THEN [pc |-> "done", result |-> Str(Coerce(Lower(Strip(resp.content))))]
    ELSE [pc |-> "done", result |-> Str(CLASSIFICATION_FAILURE)]

\* Variant of TextReturn: the failure of the model call is not caught.
TextReturn_Raises(resp) ==
    IF resp.kind = "text"
    THEN [pc |-> "done", result |-> Str(Strip(resp.content))]
    ELSE [pc |-> "raised", result |-> Pending]

\* lines 68-84: the try/except around the text-only model call
TextReturn(resp) ==
    IF resp.kind = "text"
    THEN [pc |-> "done", result |-> Str(Strip(resp.content))]
    ELSE [pc |-> "done", result |-> Str(CLASSIFICATION_FAILURE)]

---------------------------------------------------------------------------
(* Initial state: every request is about to run gpt_classification(url) *)

InitFor(R) ==
    /\ pc = [r \in R |-> "start"]
    /\ url \in [R -> Urls]
    /\ attempt = [r \in R |-> 0]
    /\ img_base64 = [r \in R |-> Pending]
    /\ returned = [r \in R |-> Pending]
    /\ browser = [r \in R |-> 0]
    /\ files = <<>>
    /\ raw = [r \in R |-> Pending]
    /\ result = [r \in R |-> Pending]
    /\ renders = [r \in R |-> 0]
    /\ fails = [r \in R |-> 0]
    /\ calls = [r \in R |-> <<>>]
    /\ navigated = [r \in R |-> <<>>]

\* The HTTP service before any request: both collections are empty.
HttpIdle(R) ==
    /\ api_keys = <<>>
    /\ classified = <<>>
    /\ api_key = [r \in R |-> ""]
    /\ response = [r \in R |-> Pending]
    /\ served = [k \in KeyPool |-> 0]
    /\ invoked = [u \in Urls |-> 0]
    /\ started = 0

Init == InitFor(SingleRequest) /\ HttpIdle(SingleRequest)

---------------------------------------------------------------------------
(* load_and_screenshot(url, retries=MAX_RETRIES) *)

\* lines 87-89 and 26-29: gpt_classification calls load_and_screenshot, which
\* formats the url, derives image_path and sets img_base64 = ""
CallLoad(r) ==
    /\ pc[r] = "start"
    /\ img_base64' = [img_base64 EXCEPT ![r] = Str("")]
    /\ pc' = [pc EXCEPT ![r] = "for"]
    /\ UNCHANGED <<navigated, url, attempt, returned, browser, files, raw, result,
                   renders, fails, calls>>

\* line 31: next iteration of the for loop; when the range is exhausted the
\* function falls off its end and returns None
ForLoop(r) ==
    /\ pc[r] = "for"
    /\ IF HasNextAttempt(attempt[r], MAX_RETRIES)
       THEN /\ attempt' = [attempt EXCEPT ![r] = attempt[r] + 1]
            /\ renders' = [renders EXCEPT ![r] = renders[r] + 1]
            /\ pc' = [pc EXCEPT ![r] = "enter"]
            /\ UNCHANGED returned
       ELSE /\ returned' = [returned EXCEPT ![r] = None]
            /\ pc' = [pc EXCEPT ![r] = "loaded"]
            /\ UNCHANGED <<attempt, renders>>
    /\ UNCHANGED <<navigated, url, img_base64, browser, files, raw, result, fails, calls>>

\* line 33: "async with async_playwright() as p" awaits __aenter__; when it
\* raises the block is not entered and the handler of line 46 runs
Enter(r) ==
    /\ pc[r] = "enter"
    /\ \E ok \in BOOLEAN :
          IF ok
          THEN /\ pc' = [pc EXCEPT ![r] = "launch"]
               /\ UNCHANGED browser
          ELSE /\ pc' = [pc EXCEPT ![r] = "except"]
               /\ UNCHANGED browser
    /\ UNCHANGED <<navigated, url, attempt, img_base64, returned, files, raw, result,
                   renders, fails, calls>>

\* line 34: await p.firefox.launch(headless=True)
Launch(r) ==
    /\ pc[r] = "launch"
    /\ \E ok \in BOOLEAN :
          IF ok
          THEN /\ browser' = [browser EXCEPT ![r] = browser[r] + 1]
               /\ pc' = [pc EXCEPT ![r] = "new_page"]
          ELSE /\ pc' = [pc EXCEPT ![r] = "unwind"]
               /\ UNCHANGED browser
    /\ UNCHANGED <<navigated, url, attempt, img_base64, returned, files, raw, result,
                   renders, fails, calls>>

\* lines 35-37: await browser.new_page(...); when it returned, the url is
\* passed to page.goto
NewPage(r) ==
    /\ pc[r] = "new_page"
    /\ \E ok \in BOOLEAN :
          IF ok
          THEN /\ navigated' = [navigated EXCEPT ![r] =
                                   Append(navigated[r], format_url(url[r]))]
               /\ pc' = [pc EXCEPT ![r] = "goto"]
               /\ UNCHANGED browser
          ELSE /\ pc' = [pc EXCEPT ![r] = "unwind"]
               /\ UNCHANGED browser
               /\ UNCHANGED navigated
    /\ UNCHANGED <<url, attempt, img_base64, returned, files, raw, result,
                   renders, fails, calls>>

\* line 37: await page.goto(url, timeout=30000)
Goto(r) ==
    /\ pc[r] = "goto"
    /\ \E ok \in BOOLEAN :
          IF ok
          THEN /\ pc' = [pc EXCEPT ![r] = "screenshot"]
               /\ UNCHANGED browser
          ELSE /\ pc' = [pc EXCEPT ![r] = "unwind"]
               /\ UNCHANGED browser
    /\ UNCHANGED <<navigated, url, attempt, img_base64, returned, files, raw, result,
                   renders, fails, calls>>

\* line 38: await page.screenshot(path=image_path)
Screenshot(r) ==
    /\ pc[r] = "screenshot"
    /\ \E ok \in BOOLEAN :
          IF ok
          THEN /\ files' = WriteFile(files, ImagePath(url[r]),
                                     Image(r, attempt[r]))
               /\ pc' = [pc EXCEPT ![r] = "close"]
               /\ UNCHANGED browser
          ELSE /\ pc' = [pc EXCEPT ![r] = "unwind"]
               /\ UNCHANGED browser
               /\ UNCHANGED files
    /\ UNCHANGED <<navigated, url, attempt, img_base64, returned, raw, result,
                   renders, fails, calls>>

\* line 39: await browser.close()
Close(r) ==
    /\ pc[r] = "close"
    /\ \E ok \in BOOLEAN :
          IF ok
          THEN /\ browser' = [browser EXCEPT ![r] = browser[r] - 1]
               /\ pc' = [pc EXCEPT ![r] = "aexit"]
          ELSE /\ pc' = [pc EXCEPT ![r] = "unwind"]
               /\ UNCHANGED browser
    /\ UNCHANGED <<navigated, url, attempt, img_base64, returned, files, raw, result,
                   renders, fails, calls>>

\* the end of the async with block (after line 39): __aexit__ is awaited
\* and stops the driver; when it raises, the handler of line 46 runs
ExitWith(r) ==
    /\ pc[r] = "aexit"
    /\ browser' = [browser EXCEPT ![r] = AExit(browser[r])]
    /\ \E ok \in BOOLEAN :
          pc' = [pc EXCEPT ![r] = IF ok THEN "read" ELSE "except"]
    /\ UNCHANGED <<navigated, url, attempt, img_base64, returned, files, raw, result,
                   renders, fails, calls>>

\* an exception raised inside the async with block (lines 34-39) leaves the
\* block: __aexit__ is awaited and stops the driver, then the handler of
\* line 46 runs
Unwind(r) ==
    /\ pc[r] = "unwind"
    /\ browser' = [browser EXCEPT ![r] = AExit(browser[r])]
    /\ pc' = [pc EXCEPT ![r] = "except"]
    /\ UNCHANGED <<navigated, url, attempt, img_base64, returned, files, raw, result,
                   renders, fails, calls>>

\* lines 42-43: open image_path, read it and encode it
ReadFile(r) ==
    /\ pc[r] = "read"
    /\ \E ok \in BOOLEAN :
          IF ok /\ Exists(files, ImagePath(url[r]))
          THEN /\ img_base64' = [img_base64 EXCEPT ![r] =
                                    B64Encode(files[ImagePath(url[r])])]
               /\ pc' = [pc EXCEPT ![r] = "remove"]
          ELSE /\ pc' = [pc EXCEPT ![r] = "except"]
               /\ UNCHANGED img_base64
    /\ UNCHANGED <<navigated, url, attempt, returned, browser, files, raw, result,
                   renders, fails, calls>>

\* lines 44-45: os.remove(image_path); return img_base64
Remove(r) ==
    /\ pc[r] = "remove"
    /\ \E ok \in BOOLEAN :
          IF ok /\ Exists(files, ImagePath(url[r]))
          THEN /\ files' = RemoveFile(files, ImagePath(url[r]))
               /\ returned' = [returned EXCEPT ![r] = img_base64[r]]
               /\ pc' = [pc EXCEPT ![r] = "loaded"]
          ELSE /\ pc' = [pc EXCEPT ![r] = "except"]
               /\ UNCHANGED <<files, returned>>
    /\ UNCHANGED <<navigated, url, attempt, img_base64, browser, raw, result,
                   renders, fails, calls>>

\* lines 46-51: the except handler: return None after the last attempt,
\* otherwise sleep and go on with the loop
Except(r) ==
    /\ pc[r] = "except"
    /\ fails' = [fails EXCEPT ![r] = fails[r] + 1]
    /\ IF GivesUp(attempt[r], MAX_RETRIES)
       THEN /\ returned' = [returned EXCEPT ![r] = None]
            /\ pc' = [pc EXCEPT ![r] = "loaded"]
       ELSE /\ pc' = [pc EXCEPT ![r] = "for"]
            /\ UNCHANGED returned
    /\ UNCHANGED <<navigated, url, attempt, img_base64, browser, files, raw, result,
                   renders, calls>>

---------------------------------------------------------------------------
(* gpt_classification(url) after load_and_screenshot returned *)

\* lines 90-93: choose the text-only fallback or the visual mode
Branch(r) ==
    /\ pc[r] = "loaded"
    /\ pc' = [pc EXCEPT ![r] = FallbackMode(returned[r])]
    /\ UNCHANGED <<navigated, url, attempt, img_base64, returned, browser, files, raw,
                   result, renders, fails, calls>>

\* lines 93-128: ask the model with the prompt and the screenshot
Visual(r) ==
    /\ pc[r] = "visual"
    /\ \E resp \in ModelResponses :
          /\ raw' = [raw EXCEPT ![r] = resp]
          /\ pc' = [pc EXCEPT ![r] = VisualReturn(resp).pc]
          /\ result' = [result EXCEPT ![r] = VisualReturn(resp).result]
    /\ calls' = [calls EXCEPT ![r] =
                    Append(calls[r], [mode |-> "visual", image |-> returned[r]])]
    /\ UNCHANGED <<navigated, url, attempt, img_base64, returned, browser, files,
                   renders, fails>>

\* lines 54-84: gpt_classification_without_image(url)
Text(r) ==
    /\ pc[r] = "text"
    /\ \E resp \in ModelResponses :
          /\ raw' = [raw EXCEPT ![r] = resp]
          /\ pc' = [pc EXCEPT ![r] = TextReturn(resp).pc]
          /\ result' = [result EXCEPT ![r] = TextReturn(resp).result]
    /\ calls' = [calls EXCEPT ![r] =
                    Append(calls[r], [mode |-> "text", image |-> None])]
    /\ UNCHANGED <<navigated, url, attempt, img_base64, returned, browser, files,
                   renders, fails>>

---------------------------------------------------------------------------
(* main.py: the collections *)

\* find_one: of the indices of the documents that match the filter, the
\* first one, or 0 when no document matches
FindOne(matching) ==
    IF matching = {} THEN 0
    ELSE CHOOSE i \in matching : \A j \in matching : i <= j

\* Variant of FindActiveKey: the status is not part of the filter.
FindActiveKey_IgnoresStatus(k) ==
    FindOne({j \in DOMAIN api_keys : api_keys[j].api_key = k})

\* find_one({"api_key": k, "status": "active"}) on api_keys
FindActiveKey(k) ==
    FindOne({j \in DOMAIN api_keys : api_keys[j].api_key = k /\ api_keys[j].status = "active"})

\* find_one({"url": u}) on classified_urls
FindUrl(u) ==
    FindOne({j \in DOMAIN classified : classified[j].url = u})

\* line 208: the rate limit check of classify_url
RateLimited(doc) ==
    doc.rate_limit # None /\ doc.usage_count >= doc.rate_limit.value

\* Variant of Admission: the rate limit is not checked.
Admission_NoRateLimit(k, u) ==
    IF FindActiveKey(k) = 0 THEN "403"
    ELSE IF FindUrl(u) # 0 THEN "cached"
    ELSE "process"

\* Variant of Admission: the stored classifications are not looked up.
Admission_NoCache(k, u) ==
    IF FindActiveKey(k) = 0 THEN "403"
    ELSE IF RateLimited(api_keys[FindActiveKey(k)]) THEN "429"
    ELSE "process"

\* lines 204-217: what classify_url does with a request for url u under key k
Admission(k, u) ==
    IF FindActiveKey(k) = 0 THEN "403"
    ELSE IF RateLimited(api_keys[FindActiveKey(k)]) THEN "429"
    ELSE IF FindUrl(u) # 0 THEN "cached"
    ELSE "process"

\* Variant of IncUsage: update_many without a filter.
IncUsage_All(keys, k) ==
    [i \in DOMAIN keys |->
        [keys[i] EXCEPT !.usage_count = keys[i].usage_count + 1]]

\* line 227: update_one({"api_key": k}, {"$inc": {"usage_count": 1}})
IncUsage(keys, k) ==
    LET i == FindOne({j \in DOMAIN keys : keys[j].api_key = k})
    IN  IF i = 0 THEN keys
        ELSE [keys EXCEPT ![i].usage_count = keys[i].usage_count + 1]

\* lines 77 and 173: datetime.utcnow() read by generate_api_key and by
\* refresh_api_key. Of the timestamp only this much is kept: whether it is
\* the time the key was issued or the later time of a refresh.
ISSUED == "issued"
REFRESHED == "refreshed"

\* Variant of ResetUsage: only created_at is set, the usage count is kept.
ResetUsage_KeepsCount(keys, k) ==
    LET i == FindOne({j \in DOMAIN keys : keys[j].api_key = k})
    IN  IF i = 0 THEN keys
        ELSE [keys EXCEPT ![i].created_at = REFRESHED]

\* lines 171-176: update_one({"api_key": k}, {"$set": {"usage_count": 0, ...}})
ResetUsage(keys, k) ==
    LET i == FindOne({j \in DOMAIN keys : keys[j].api_key = k})
    IN  IF i = 0 THEN keys
        ELSE [keys EXCEPT ![i].usage_count = 0, ![i].created_at = REFRESHED]

\* line 105: update_one({"api_key": k, "status": "active"},
\*                      {"$set": {"status": "revoked"}})
Revoke(keys, k) ==
    LET i == FindOne({j \in DOMAIN keys : keys[j].api_key = k /\ keys[j].status = "active"})
    IN  IF i = 0 THEN keys
        ELSE [keys EXCEPT ![i].status = "revoked"]

\* lines 220-224: insert_one({"url", "classification", "timestamp"})
\* (the timestamp is not part of the model)
InsertResult(coll, u, c) ==
    Append(coll, [url |-> u, classification |-> c])

---------------------------------------------------------------------------
(* main.py: key management and polling; these handlers never await.  Their
   HTTP responses are functions of the state they run in and of their
   arguments. *)

\* lines 41-44: verify_master_key raises 403 unless the key is the master key
\* lines 76-79: the document generate_api_key inserts and returns
NewKeyDoc(limit) ==
    [api_key |-> KeyNames[Len(api_keys) + 1],
     status |-> "active",
     rate_limit |-> limit,
     usage_count |-> 0,
     created_at |-> ISSUED]

\* lines 105-108: status code of revoke_api_key(k)
RevokeStatus(k, authorized) ==
    IF ~authorized THEN 403
    ELSE IF FindActiveKey(k) = 0 THEN 404
    ELSE 200

\* lines 167-169: status code of refresh_api_key(k)
RefreshStatus(k, authorized) ==
    IF ~authorized THEN 403
    ELSE IF FindActiveKey(k) = 0 THEN 404
    ELSE 200

\* lines 171-178: the document refresh_api_key(k) returns with status 200
RefreshBody(k) ==
    [api_keys[FindActiveKey(k)] EXCEPT !.usage_count = 0,
                                       !.created_at = REFRESHED]

\* lines 254-259: status code of poll_classification(u)
PollStatus(u) == IF FindUrl(u) = 0 THEN 404 ELSE 200

\* lines 49-79: generate_api_key(rate_limit, master_key)
GenerateApiKey(limit, authorized) ==
    /\ Len(api_keys) < MaxKeys
    /\ IF ~authorized
       THEN UNCHANGED <<api_keys, served>>
       ELSE /\ api_keys' = Append(api_keys, NewKeyDoc(limit))
            /\ served' = [served EXCEPT ![NewKeyDoc(limit).api_key] = 0]
    /\ UNCHANGED <<classified, api_key, response, invoked, started>>
    /\ UNCHANGED coreVars

\* lines 84-108: revoke_api_key(api_key, master_key)
RevokeApiKey(k, authorized) ==
    /\ IF RevokeStatus(k, authorized) = 200
       THEN api_keys' = Revoke(api_keys, k)
       ELSE UNCHANGED api_keys
    /\ UNCHANGED <<classified, api_key, response, served, invoked, started>>
    /\ UNCHANGED coreVars

\* lines 144-178: refresh_api_key(api_key, master_key)
RefreshApiKey(k, authorized) ==
    /\ IF RefreshStatus(k, authorized) = 200
       THEN /\ api_keys' = ResetUsage(api_keys, k)
            /\ served' = [served EXCEPT ![k] = 0]
       ELSE UNCHANGED <<api_keys, served>>
    /\ UNCHANGED <<classified, api_key, response, invoked, started>>
    /\ UNCHANGED coreVars

\* lines 234-259: poll_classification(url) reads classified_urls only
PollClassification(u) ==
    /\ PollStatus(u) \in {200, 404}
    /\ UNCHANGED httpVars
    /\ UNCHANGED coreVars

---------------------------------------------------------------------------
(* main.py: classify_url(url, api_key) *)

\* The locals of a handler that is not running.
NoLocals(r) ==
    /\ attempt' = [attempt EXCEPT ![r] = 0]
    /\ img_base64' = [img_base64 EXCEPT ![r] = Pending]
    /\ returned' = [returned EXCEPT ![r] = Pending]
    /\ raw' = [raw EXCEPT ![r] = Pending]
    /\ result' = [result EXCEPT ![r] = Pending]
    /\ renders' = [renders EXCEPT ![r] = 0]
    /\ fails' = [fails EXCEPT ![r] = 0]
    /\ calls' = [calls EXCEPT ![r] = <<>>]
    /\ navigated' = [navigated EXCEPT ![r] = <<>>]

\* lines 183-217: a request arrives in handler r; the key check, the rate
\* limit check and the cache lookup run without an await in between
ClassifyUrl(r, u, k) ==
    /\ pc[r] \in {"idle", "responded"}
    /\ started < MaxRequests
    /\ started' = started + 1
    /\ CASE Admission(k, u) = "403" ->
              /\ response' = [response EXCEPT ![r] = [status |-> 403]]
              /\ pc' = [pc EXCEPT ![r] = "responded"]
              /\ UNCHANGED <<url, api_key, served, invoked>>
         [] Admission(k, u) = "429" ->
              /\ response' = [response EXCEPT ![r] = [status |-> 429]]
              /\ pc' = [pc EXCEPT ![r] = "responded"]
              /\ UNCHANGED <<url, api_key, served, invoked>>
         [] Admission(k, u) = "cached" ->
              /\ response' = [response EXCEPT ![r] =
                    [status |-> 200,
                     classification |-> classified[FindUrl(u)].classification,
                     source |-> "cached"]]
              /\ served' = [served EXCEPT ![k] = served[k] + 1]
              /\ pc' = [pc EXCEPT ![r] = "responded"]
              /\ UNCHANGED <<url, api_key, invoked>>
         [] Admission(k, u) = "process" ->
              /\ response' = [response EXCEPT ![r] = Pending]
              /\ url' = [url EXCEPT ![r] = u]
              /\ api_key' = [api_key EXCEPT ![r] = k]
              /\ invoked' = [invoked EXCEPT ![u] = invoked[u] + 1]
              /\ pc' = [pc EXCEPT ![r] = "start"]
              /\ UNCHANGED served
    /\ UNCHANGED <<attempt, img_base64, returned, raw, result, renders, fails,
                   calls, navigated>>
    /\ UNCHANGED <<browser, files, api_keys, classified>>

\* lines 217-229: gpt_classification returned; the result is inserted, the
\* usage count of the key is incremented and the response is sent; the
\* handler and its locals are gone
StoreResult(r) ==
    /\ pc[r] = "done"
    /\ classified' = InsertResult(classified, url[r], result[r])
    /\ api_keys' = IncUsage(api_keys, api_key[r])
    /\ response' = [response EXCEPT ![r] =
          [status |-> 200, classification |-> result[r],
           source |-> "processed"]]
    /\ served' = [served EXCEPT ![api_key[r]] = served[api_key[r]] + 1]
    /\ pc' = [pc EXCEPT ![r] = "responded"]
    /\ url' = [url EXCEPT ![r] = ""]
    /\ api_key' = [api_key EXCEPT ![r] = ""]
    /\ NoLocals(r)
    /\ UNCHANGED <<browser, files, invoked, started>>

---------------------------------------------------------------------------
(* Specifications *)

Step(r) ==
    \/ CallLoad(r)
    \/ ForLoop(r)
    \/ Enter(r)
    \/ Launch(r)
    \/ NewPage(r)
    \/ Goto(r)
    \/ Screenshot(r)
    \/ Close(r)
    \/ ExitWith(r)
    \/ Unwind(r)
    \/ ReadFile(r)
    \/ Remove(r)
    \/ Except(r)
    \/ Branch(r)
    \/ Visual(r)
    \/ Text(r)

Next == \E r \in DOMAIN pc : Step(r) /\ UNCHANGED httpVars

Spec == Init /\ [][Next]_vars

\* Every call on the browser, the file system and the model returns or
\* raises, and the event loop keeps running a request that can take a step.
FairSpec ==
    Spec /\ \A r \in SingleRequest : WF_vars(Step(r) /\ UNCHANGED httpVars)

\* Two concurrent invocations: the awaits of load_and_screenshot let the
\* steps of the two requests interleave.
ConcInit == InitFor(ConcRequests) /\ HttpIdle(ConcRequests)

ConcSpec == ConcInit /\ [][Next]_vars

\* The HTTP service: every handler slot is free and both collections are
\* empty.
HttpInit ==
    /\ pc = [r \in HttpSlots |-> "idle"]
    /\ url = [r \in HttpSlots |-> ""]
    /\ attempt = [r \in HttpSlots |-> 0]
    /\ img_base64 = [r \in HttpSlots |-> Pending]
    /\ returned = [r \in HttpSlots |-> Pending]
    /\ browser = [r \in HttpSlots |-> 0]
    /\ files = <<>>
    /\ raw = [r \in HttpSlots |-> Pending]
    /\ result = [r \in HttpSlots |-> Pending]
    /\ renders = [r \in HttpSlots |-> 0]
    /\ fails = [r \in HttpSlots |-> 0]
    /\ calls = [r \in HttpSlots |-> <<>>]
    /\ navigated = [r \in HttpSlots |-> <<>>]
    /\ HttpIdle(HttpSlots)

\* The answers of the inference endpoint in the HTTP specification.
HttpAnswers == {[kind |-> "text", content |-> "Live Website"],
                [kind |-> "error"]}

\* The positions at which a handler does not hold the event loop: it is free,
\* has answered, or is suspended in an await of load_and_screenshot (lines
\* 33-39: entering the async with block, launch, new_page, goto, screenshot,
\* close and leaving the block, normally or with an exception; line 51: the
\* sleep before the next attempt, which the last attempt does not reach).  Between two of them a handler runs without interruption:
\* pymongo and openai.ChatCompletion.create are synchronous calls.
AwaitPoints == {"idle", "responded", "enter", "launch", "new_page", "goto",
                "screenshot", "close", "aexit", "unwind"}

\* Handler q is not running.
Suspended(q) ==
    \/ pc[q] \in AwaitPoints
    \/ pc[q] = "except" /\ ~GivesUp(attempt[q], MAX_RETRIES)

\* The event loop can run a step of handler r: no other handler is running.
Alone(r) == \A q \in DOMAIN pc \ {r} : Suspended(q)

\* The event loop can start a handler: no handler is running.
Quiet == \A q \in DOMAIN pc : Suspended(q)

\* The urls of HttpUrls whose page cannot be loaded: page.goto raises.
HttpDeadUrls == {"https://b.co"}

\* The environment of the pipeline in the HTTP specification: the browser
\* calls succeed, except that page.goto raises for the urls of HttpDeadUrls;
\* a file operation fails only when the file is missing, and the model
\* answers with one of HttpAnswers.  The pipeline under every failure is the
\* subject of Spec and ConcSpec.
HttpEnvironment(r) ==
    /\ pc'[r] = "unwind" <=> (pc[r] = "goto" /\ url[r] \in HttpDeadUrls)
    /\ pc'[r] = "except" =>
          \/ pc[r] = "unwind"
          \/ pc[r] \in {"read", "remove"} /\ ~Exists(files, ImagePath(url[r]))
    /\ raw'[r] # raw[r] => raw'[r] \in HttpAnswers

\* line 217: a step of gpt_classification, awaited by classify_url
Pipeline(r) ==
    /\ Alone(r)
    /\ Step(r)
    /\ HttpEnvironment(r)
    /\ UNCHANGED httpVars

HttpNext ==
    \/ /\ Quiet
       /\ \E limit \in RateLimits, authorized \in BOOLEAN :
             GenerateApiKey(limit, authorized)
    \/ /\ Quiet
       /\ \E k \in KeyPool, authorized \in BOOLEAN : RevokeApiKey(k, authorized)
    \/ /\ Quiet
       /\ \E k \in KeyPool, authorized \in BOOLEAN : RefreshApiKey(k, authorized)
    \/ /\ Quiet
       /\ \E u \in HttpUrls : PollClassification(u)
    \/ /\ Quiet
       /\ \E r \in HttpSlots, u \in HttpUrls, k \in KeyPool : ClassifyUrl(r, u, k)
    \/ \E r \in HttpSlots : Pipeline(r)
    \/ \E r \in HttpSlots : Alone(r) /\ StoreResult(r)

HttpSpec == HttpInit /\ [][HttpNext]_vars

---------------------------------------------------------------------------
(* Properties of the classification pipeline *)

ClassificationResults == CanonicalLabels \cup {CLASSIFICATION_FAILURE}

\* load_and_screenshot of request r has returned
Loaded(r) == returned[r] # Pending

\* C1: gpt_classification returns one of exactly four strings, the three
\* canonical labels or "classification failure", in the visual path and in
\* the text-only fallback path alike.
C1_ClosedResultSet ==
    \A r \in DOMAIN pc :
        pc[r] = "done" =>
            /\ result[r].kind = "str"
            /\ result[r].value \in ClassificationResults

\* C2: whenever the model answers without error, the result is the
\* lower-cased, trimmed answer if that is a canonical label and
\* "nonactive domain" otherwise, in visual and in text-only mode alike.
C2_ResponseCoercion ==
    \A r \in DOMAIN pc :
        (pc[r] = "done" /\ raw[r].kind = "text") =>
            LET n == Lower(Strip(raw[r].content))
            IN  IF n \in CanonicalLabels
                THEN result[r] = Str(n)
                ELSE result[r] = Str("nonactive domain")

\* C3: a failure of the model call or of reading its response, in either
\* mode, yields "classification failure"; gpt_classification never raises.
C3_ModelFailureCaught ==
    \A r \in DOMAIN pc :
        /\ pc[r] # "raised"
        /\ (pc[r] = "done" /\ raw[r].kind \in {"error", "malformed"}) =>
               result[r] = Str(CLASSIFICATION_FAILURE)

\* C3 witness: a text-only call whose response had no content has returned.
C3_Witness ==
    \E r \in DOMAIN pc :
        /\ pc[r] = "done"
        /\ raw[r].kind = "malformed"
        /\ calls[r] = <<[mode |-> "text", image |-> None]>>
        /\ result[r] = Str(CLASSIFICATION_FAILURE)

\* C4: when load_and_screenshot returned None the model is only ever asked
\* in text-only mode, exactly once by the time the request is done, and the
\* request returns what that path returns; when a screenshot was captured
\* the model is only ever asked in visual mode, exactly once.
C4_FallbackDeterminism ==
    \A r \in DOMAIN pc :
        /\ returned[r] = None =>
              /\ \A i \in DOMAIN calls[r] : calls[r][i].mode = "text"
              /\ pc[r] = "done" =>
                    /\ Len(calls[r]) = 1
                    /\ result[r] = TextReturn(raw[r]).result
        /\ (Loaded(r) /\ returned[r] # None) =>
              /\ \A i \in DOMAIN calls[r] : calls[r][i].mode = "visual"
              /\ pc[r] = "done" => Len(calls[r]) = 1
        /\ ~Loaded(r) => calls[r] = <<>>

\* C4 witness: rendering was exhausted and the text-only answer was returned.
C4_Witness ==
    \E r \in DOMAIN pc :
        /\ pc[r] = "done"
        /\ returned[r] = None
        /\ raw[r] = [kind |-> "text", content |-> " nonactive domain\n"]
        /\ result[r] = Str("nonactive domain")

\* C5: when the render attempt fails k < retries times and then succeeds,
\* load_and_screenshot returns the encoded image of the successful attempt
\* after exactly k+1 attempts, and no attempt follows the successful one.
C5_RetryThenSuccess ==
    \A r \in DOMAIN pc :
        (Loaded(r) /\ returned[r] # None) =>
            /\ fails[r] < MAX_RETRIES
            /\ renders[r] = fails[r] + 1
            /\ returned[r] = B64Encode(Image(r, renders[r]))

\* C5 witness: one failed attempt (after its screenshot was written), then a
\* successful one whose image was returned.
C5_Witness ==
    \E r \in DOMAIN pc :
        /\ fails[r] = 1
        /\ renders[r] = 2
        /\ returned[r] = B64Encode(Image(r, 2))
        /\ pc[r] = "done"

\* C6: when every render attempt fails, load_and_screenshot returns None
\* after exactly MAX_RETRIES attempts, and it never raises.
C6_Exhaustion ==
    \A r \in DOMAIN pc :
        /\ pc[r] # "raised"
        /\ renders[r] <= MAX_RETRIES
        /\ returned[r] = None =>
              (renders[r] = MAX_RETRIES /\ fails[r] = MAX_RETRIES)
        /\ (Loaded(r) /\ fails[r] = renders[r]) => returned[r] = None

\* C6 witness: both attempts failed and None was returned.
C6_Witness ==
    \E r \in DOMAIN pc :
        /\ pc[r] = "loaded"
        /\ returned[r] = None
        /\ renders[r] = 2
        /\ fails[r] = 2

\* C7: every request eventually reaches "done" and stays there, and "done"
\* carries a ClassificationResult (one of the three canonical labels or the
\* failure sentinel), after at most MAX_RETRIES render attempts and one
\* model call; the pipeline neither hangs nor returns nothing.
C7_EventuallyDone ==
    <>[](\A r \in SingleRequest :
            /\ pc[r] = "done"
            /\ result[r].kind = "str"
            /\ result[r].value \in ClassificationResults
            /\ renders[r] <= MAX_RETRIES
            /\ Len(calls[r]) = 1)

\* C8: the model is invoked at most once per request, exactly once by the
\* time the request is done, and a failed invocation leads directly to
\* "classification failure" without a second call.
C8_ModelCalledOnce ==
    \A r \in DOMAIN pc :
        /\ Len(calls[r]) <= 1
        /\ pc[r] = "done" => Len(calls[r]) = 1
        /\ (Len(calls[r]) = 1 /\ raw[r].kind \in {"error", "malformed"}) =>
              (pc[r] = "done" /\ result[r] = Str(CLASSIFICATION_FAILURE))

\* C8 witness: a visual call failed and the request is done.
C8_Witness ==
    \E r \in DOMAIN pc :
        /\ pc[r] = "done"
        /\ raw[r].kind = "error"
        /\ Len(calls[r]) = 1
        /\ calls[r][1].mode = "visual"

\* C9: whenever load_and_screenshot has returned, with an image or with
\* None, the screenshot file it wrote under /tmp no longer exists.
C9_TempFileReleased ==
    \A r \in DOMAIN pc :
        Loaded(r) => ~Exists(files, ImagePath(url[r]))

\* C10: a request holds at most one live browser session, and none outside
\* the async with block: none when an attempt starts, none in the except
\* handler, none when the file is read and none once the function returned.
C10_SessionTornDown ==
    \A r \in DOMAIN pc :
        /\ browser[r] \in {0, 1}
        /\ pc[r] \notin {"new_page", "goto", "screenshot", "close", "unwind"} =>
              browser[r] = 0

\* C10 witness: the second attempt starts without a live session after the
\* first one failed with its browser open (its screenshot is on disk).
C10_Witness ==
    \E r \in DOMAIN pc :
        /\ pc[r] = "launch"
        /\ attempt[r] = 2
        /\ Exists(files, ImagePath(url[r]))
        /\ browser[r] = 0

---------------------------------------------------------------------------
(* Concurrent invocations and URL normalization *)

SchemeQualified(u) == StartsWith(u, "http://") \/ StartsWith(u, "https://")

\* C11: under any interleaving of concurrent invocations, the image an
\* invocation encodes and sends to the model is the one its own render
\* attempt captured, and between its screenshot and its os.remove the file
\* of an invocation exists and holds its own screenshot.
C11_ImageOwnedByRequest ==
    \A r \in DOMAIN pc :
        /\ \A i \in DOMAIN calls[r] :
              calls[r][i].mode = "visual" =>
                  calls[r][i].image.image.req = r
        /\ pc[r] \in {"close", "aexit", "read", "remove"} =>
              /\ Exists(files, ImagePath(url[r]))
              /\ files[ImagePath(url[r])] = Image(r, attempt[r])

\* C12: format_url is idempotent, leaves a url that starts with http:// or
\* https:// unchanged, prepends exactly one http:// to any other url, and
\* every url passed to page.goto is the formatted, scheme-qualified one.
C12_FormatUrlIdempotent ==
    \A r \in DOMAIN pc :
        LET u == url[r]
            f == format_url(url[r])
        IN  /\ format_url(f) = f
            /\ SchemeQualified(u) => f = u
            /\ ~SchemeQualified(u) => f = "http://" \o u
            /\ \A i \in DOMAIN navigated[r] :
                  /\ SchemeQualified(navigated[r][i])
                  /\ format_url(navigated[r][i]) = navigated[r][i]
                  /\ navigated[r][i] = f

\* C12 witness: a bare domain was passed to the browser with one http://
\* prefix in both render attempts.
C12_Witness ==
    \E r \in DOMAIN pc :
        /\ url[r] = "a.co"
        /\ navigated[r] = <<"http://a.co", "http://a.co">>

---------------------------------------------------------------------------
(* Properties of the HTTP service *)

\* the documents of api_keys with api_key k
KeyDocs(keys, k) == {i \in DOMAIN keys : keys[i].api_key = k}

\* an active document with api_key k exists
Active(keys, k) == \E i \in KeyDocs(keys, k) : keys[i].status = "active"

\* a document with api_key k exists and is revoked
Revoked(keys, k) == \E i \in KeyDocs(keys, k) : keys[i].status = "revoked"

\* the document allows one more request
BelowLimit(d) ==
    d.rate_limit = None \/ d.usage_count < d.rate_limit.value

\* the records of classified_urls for url u
Records(coll, u) == {j \in DOMAIN coll : coll[j].url = u}

\* the classification stored first for url u
StoredFirst(coll, u) ==
    coll[CHOOSE j \in Records(coll, u) :
            \A h \in Records(coll, u) : j <= h].classification

\* C13: classify_url calls gpt_classification only when the key is active,
\* below its rate limit (or without one) and no classification is stored
\* for the url; a request answered 403 or 429 does not invoke the core and
\* leaves api_keys and classified_urls unchanged.
C13_CoreOnlyAfterChecks ==
    [][\A r \in HttpSlots, u \in HttpUrls, k \in KeyPool :
          ClassifyUrl(r, u, k) =>
             /\ pc'[r] = "start" =>
                   /\ \E i \in KeyDocs(api_keys, k) :
                         /\ api_keys[i].status = "active"
                         /\ BelowLimit(api_keys[i])
                   /\ Records(classified, u) = {}
             /\ invoked'[u] # invoked[u] => pc'[r] = "start"
             /\ response'[r] \in {[status |-> 403], [status |-> 429]} =>
                   /\ pc'[r] = "responded"
                   /\ invoked' = invoked
                   /\ api_keys' = api_keys
                   /\ classified' = classified
             /\ ~Active(api_keys, k) => response'[r] = [status |-> 403]
      ]_vars

\* C13 witness: a request passed the checks with a key at usage 0 of limit 1
\* and is about to run the core, while the other handler answered 429.
C13_Witness ==
    \E r \in HttpSlots, q \in HttpSlots :
        /\ pc[r] = "start"
        /\ Records(classified, url[r]) = {}
        /\ \E i \in KeyDocs(api_keys, api_key[r]) :
              /\ api_keys[i].status = "active"
              /\ api_keys[i].rate_limit = IntVal(1)
              /\ api_keys[i].usage_count = 0
        /\ pc[q] = "responded"
        /\ response[q] = [status |-> 429]

\* C14: for a key with rate_limit L, at most L requests are served since
\* its creation or last refresh, and once L were served every further
\* request with it is rejected with 429.
C14_RateLimitIsMaximum ==
    \A i \in DOMAIN api_keys :
        api_keys[i].rate_limit # None =>
            /\ served[api_keys[i].api_key] <= api_keys[i].rate_limit.value
            /\ (/\ api_keys[i].status = "active"
                /\ served[api_keys[i].api_key] >= api_keys[i].rate_limit.value)
                  => RateLimited(api_keys[i])

\* C15: a classify-url request for a url that has a stored classification,
\* made with an active key below its limit, is answered with the stored
\* classification and source "cached" without invoking the core, writing a
\* record or changing a usage count; the classification stored for a url
\* never changes.
C15_CachedResult ==
    [][/\ \A r \in HttpSlots, u \in HttpUrls, k \in KeyPool :
             (/\ ClassifyUrl(r, u, k)
              /\ Records(classified, u) # {}
              /\ \E i \in KeyDocs(api_keys, k) :
                    api_keys[i].status = "active" /\ BelowLimit(api_keys[i]))
             => /\ response'[r] =
                      [status |-> 200,
                       classification |-> StoredFirst(classified, u),
                       source |-> "cached"]
                /\ pc'[r] = "responded"
                /\ invoked' = invoked
                /\ classified' = classified
                /\ api_keys' = api_keys
       /\ \A u \in HttpUrls :
             Records(classified, u) # {} =>
                /\ Records(classified', u) # {}
                /\ StoredFirst(classified', u) = StoredFirst(classified, u)
      ]_vars

\* C15 witness: a stored "classification failure" was answered from the
\* cache.
C15_Witness ==
    \E r \in HttpSlots :
        /\ pc[r] = "responded"
        /\ response[r] = [status |-> 200,
                          classification |-> Str(CLASSIFICATION_FAILURE),
                          source |-> "cached"]
        /\ Len(classified) = 1

\* C16: a request processed by the core adds exactly 1 to the usage_count
\* of its key and stores exactly one record, whatever the classification;
\* the arrival of a request (cached, rejected or admitted) and a poll change
\* no usage_count and no record; no usage_count of another key changes.
C16_UsageAccounting ==
    [][/\ \A r \in HttpSlots :
             StoreResult(r) =>
                /\ DOMAIN api_keys' = DOMAIN api_keys
                /\ \A i \in DOMAIN api_keys :
                      api_keys'[i] =
                         IF api_keys[i].api_key = api_key[r]
                         THEN [api_keys[i] EXCEPT
                                  !.usage_count = api_keys[i].usage_count + 1]
                         ELSE api_keys[i]
                /\ classified' =
                      Append(classified,
                             [url |-> url[r], classification |-> result[r]])
       /\ \A r \in HttpSlots, u \in HttpUrls, k \in KeyPool :
             ClassifyUrl(r, u, k) =>
                (api_keys' = api_keys /\ classified' = classified)
       /\ \A u \in HttpUrls :
             PollClassification(u) =>
                (api_keys' = api_keys /\ classified' = classified)
      ]_vars

\* C16 witness: of two keys the second was charged for one processed
\* request, whose result was "classification failure"; the first was not.
C16_Witness ==
    /\ Len(api_keys) = 2
    /\ api_keys[1].usage_count = 0
    /\ api_keys[2].usage_count = 1
    /\ Len(classified) = 1
    /\ classified[1].classification = Str(CLASSIFICATION_FAILURE)

\* C17: revoke_api_key sets an active key to "revoked" and answers 404 on
\* an unknown or revoked key without changing anything; a revoked key never
\* becomes active again; a classify-url request with a revoked key is
\* answered 403 and a refresh of it 404.
C17_RevocationIsFinal ==
    [][/\ \A k \in KeyPool :
             RevokeApiKey(k, TRUE) =>
                IF Active(api_keys, k)
                THEN /\ RevokeStatus(k, TRUE) = 200
                     /\ ~Active(api_keys', k)
                     /\ Revoked(api_keys', k)
                     /\ \A i \in DOMAIN api_keys :
                           api_keys[i].api_key # k => api_keys'[i] = api_keys[i]
                ELSE /\ RevokeStatus(k, TRUE) = 404
                     /\ api_keys' = api_keys
       /\ \A i \in DOMAIN api_keys :
             api_keys[i].status = "revoked" =>
                /\ i \in DOMAIN api_keys'
                /\ api_keys'[i].api_key = api_keys[i].api_key
                /\ api_keys'[i].status = "revoked"
       /\ \A k \in KeyPool :
             Revoked(api_keys, k) =>
                /\ RefreshStatus(k, TRUE) = 404
                /\ RefreshApiKey(k, TRUE) => api_keys' = api_keys
                /\ \A r \in HttpSlots, u \in HttpUrls :
                      ClassifyUrl(r, u, k) =>
                         (response'[r] = [status |-> 403] /\ pc'[r] = "responded")
      ]_vars

\* C17 witness: a key that served a request was revoked, and a request was
\* answered 403.
C17_Witness ==
    \E r \in HttpSlots :
        /\ Len(api_keys) = 1
        /\ api_keys[1].status = "revoked"
        /\ api_keys[1].usage_count = 1
        /\ pc[r] = "responded"
        /\ response[r] = [status |-> 403]

\* refresh_api_key(k) on an active key: usage_count becomes 0, api_key,
\* status and rate_limit stay, the returned record has usage_count 0; on an
\* unknown or revoked key: 404 and no change.
RefreshEffect(k) ==
    IF Active(api_keys, k)
    THEN /\ RefreshStatus(k, TRUE) = 200
         /\ DOMAIN api_keys' = DOMAIN api_keys
         /\ \A i \in DOMAIN api_keys :
               api_keys'[i] =
                  IF api_keys[i].api_key = k
                  THEN [api_keys[i] EXCEPT !.usage_count = 0,
                                           !.created_at = "refreshed"]
                  ELSE api_keys[i]
         /\ RefreshBody(k).usage_count = 0
         /\ RefreshBody(k).api_key = k
         /\ RefreshBody(k).status = "active"
         /\ \E i \in KeyDocs(api_keys, k) :
               RefreshBody(k).rate_limit = api_keys[i].rate_limit
    ELSE /\ RefreshStatus(k, TRUE) = 404
         /\ api_keys' = api_keys

\* C18 as stated: refresh resets the usage count as above, and a key that
\* was rejected with 429 is served again right after the refresh.
C18_RefreshServesAgain ==
    [][\A k \in KeyPool :
          RefreshApiKey(k, TRUE) =>
             /\ RefreshEffect(k)
             /\ \A i \in KeyDocs(api_keys, k) :
                   (api_keys[i].status = "active" /\ RateLimited(api_keys[i]))
                      => BelowLimit(api_keys'[i])
      ]_vars

\* C18 amended: refresh resets the usage count as above, and a key with
\* rate_limit >= 1 that was rejected with 429 is served again right after
\* the refresh (a key with rate_limit 0 is rejected before and after).
C18_RefreshResetsUsage ==
    [][\A k \in KeyPool :
          RefreshApiKey(k, TRUE) =>
             /\ RefreshEffect(k)
             /\ \A i \in KeyDocs(api_keys, k) :
                   (/\ api_keys[i].status = "active"
                    /\ RateLimited(api_keys[i])
                    /\ api_keys[i].rate_limit.value >= 1)
                      => BelowLimit(api_keys'[i])
             /\ \A i \in KeyDocs(api_keys, k) :
                   (/\ api_keys[i].status = "active"
                    /\ api_keys[i].rate_limit = IntVal(0))
                      => (RateLimited(api_keys[i]) /\ ~BelowLimit(api_keys'[i]))
      ]_vars

\* C18 witness: the only key, of limit 1, served a request, a further
\* request was answered 429, and the key was refreshed to usage 0.
C18_Witness ==
    \E r \in HttpSlots :
        /\ Len(api_keys) = 1
        /\ api_keys[1].status = "active"
        /\ api_keys[1].rate_limit = IntVal(1)
        /\ api_keys[1].usage_count = 0
        /\ Len(classified) = 1
        /\ served["key-1"] = 0
        /\ response[r] = [status |-> 429]

\* C19: under any interleaving of classify-url requests and refreshes, the
\* usage_count of a key with rate_limit L stays within 0..L.
C19_UsageWithinLimit ==
    \A i \in DOMAIN api_keys :
        api_keys[i].rate_limit # None =>
            /\ 0 <= api_keys[i].usage_count
            /\ api_keys[i].usage_count <= api_keys[i].rate_limit.value

\* C20: under any interleaving of classify-url requests, classified_urls
\* holds at most one record per url and gpt_classification is invoked at
\* most once per url.
C20_OneRecordPerUrl ==
    \A u \in HttpUrls :
        /\ Cardinality(Records(classified, u)) <= 1
        /\ invoked[u] <= 1

====
